---------------------------- MODULE Spec2Model ----------------------------
(***************************************************************************)
(* The instruction-execution core of ntsc-nes (src/src/main.rs): the       *)
(* Emulator with its ram and rom buffers and its Cpu, the bus operations   *)
(* read / write / push / pull, reset, the run loop and emulate_cpu.        *)
(*                                                                         *)
(* The rom image comes from a file.  The model keeps of it the bytes the   *)
(* execution has read so far (rom is a function on the offsets already     *)
(* read); a byte of the image is drawn the first time its offset is read   *)
(* and is fixed from then on.                                              *)
(*                                                                         *)
(* Rust's +, += and -= on u16 panic on overflow in a build with overflow   *)
(* checks (the default of the dev profile) and wrap in a build without     *)
(* them (the default of the release profile): overflow_checks says which   *)
(* build runs.                                                             *)
(***************************************************************************)
EXTENDS Integers, FiniteSets, TLC

VARIABLES
    ram,              \* Emulator.ram: [0 .. RamSize-1 -> byte]
    rom,              \* Emulator.rom: the loaded image, at the offsets read so far
    cpu,              \* Emulator.cpu: the Cpu record
    outcome,          \* where main is: "new", "running", "returned", or a panic
    overflow_checks,  \* the build: TRUE when integer overflow panics
    last,             \* the instruction emulate_cpu executed last, with the Cpu before it
    prev,             \* the instruction executed before last
    probe             \* the call of read made last on the Emulator as constructed

vars == <<ram, rom, cpu, outcome, overflow_checks, last, prev, probe>>

---------------------------------------------------------------------------
(* Sizes and the bus layout *)

\* main: Emulator::new(0x800, 0x8000, ..)
RamSize == 2048
RomSize == 32768
\* read / write: address < 0x800 is ram, address >= 0x8000 is rom
RamLimit == 2048
RomBase == 32768
\* pull: 0x100 + stack_pointer
StackPage == 256
\* reset: the two bytes of the reset vector
VectorLow == 65532
VectorHigh == 65533
\* the largest u16
MaxU16 == 65535

\* How many bytes of the rom image one execution may read (the reset vector
\* included).
MaxImage == 6

---------------------------------------------------------------------------
(* enum Opcode *)

HLT == 2
PHA == 72
PLA == 104
BPL == 16
BMI == 48
BNE == 208
BEQ == 240
LDY_Immediate == 160
LDX_Immediate == 162
LDA_ZeroPage == 165
LDA_Immediate == 169
LDA_Absolute == 173
STA_ZeroPage == 133
STA_Absolute == 141
STX_ZeroPage == 134
STX_Absolute == 142
STY_ZeroPage == 132
STY_Absolute == 140

Opcode ==
    { HLT, PHA, PLA, BPL, BMI, BNE, BEQ, LDY_Immediate, LDX_Immediate,
      LDA_ZeroPage, LDA_Immediate, LDA_Absolute, STA_ZeroPage, STA_Absolute,
      STX_ZeroPage, STX_Absolute, STY_ZeroPage, STY_Absolute }

---------------------------------------------------------------------------
(* The images explored: what a byte of the image may be, by the way it is   *)
(* first read.                                                              *)

\* first read as an opcode: the values of the enum and 0x00, which is none
OpcodeBytes == Opcode \cup {0}
\* first read as an operand or as data: 0x00, 0x01, 0x05, 0x7F, 0x80, 0xFE
OperandBytes == {0, 1, 5, 127, 128, 254}
\* the reset vector: 0xFE, 0xFF low; 0x80, 0xFF high
VectorLowBytes == {254, 255}
VectorHighBytes == {128, 255}

---------------------------------------------------------------------------
(* Emulator::new *)

StatusFlagsNew ==
    [ carry_flag |-> FALSE, zero_flag |-> FALSE, interrupt_disable_flag |-> TRUE,
      overflow_flag |-> FALSE, negative_flag |-> FALSE ]

CpuNew ==
    [ flags |-> StatusFlagsNew, program_counter |-> 0, stack_pointer |-> 0,
      halted |-> FALSE, reg_a |-> 0, reg_x |-> 0, reg_y |-> 0 ]

\* RamNew with a fault: ram zeroed as rom is.
RamNewZeroed == [a \in 0 .. RamSize - 1 |-> 0]

RamNew == [a \in 0 .. RamSize - 1 |-> 255]

\* no instruction executed yet
NoInstruction == [opcode |-> -1, operand |-> -1, address |-> -1, cpu |-> CpuNew]

\* read not called yet
NoProbe == [address |-> -1, byte |-> -1]

Init ==
    /\ ram = RamNew
    /\ rom = << >>
    /\ cpu = CpuNew
    /\ outcome = "new"
    /\ overflow_checks \in BOOLEAN
    /\ last = NoInstruction
    /\ prev = NoInstruction
    /\ probe = NoProbe

\* The Emulator an operation works on, with how the operation has gone so far.
Self == [ram |-> ram, rom |-> rom, cpu |-> cpu, outcome |-> outcome]

Running(self) == self.outcome = "running"

Panic(self, what) == [self EXCEPT !.outcome = what]

---------------------------------------------------------------------------
(* The rom image *)

\* The byte at address is a byte of the image that has not been read yet.
Unread(self, address) ==
    /\ address >= RomBase
    /\ (address - RomBase) \notin DOMAIN self.rom

\* What the image may hold at address when the byte there is read for the
\* first time: one of bytes, as long as the execution has read fewer than
\* MaxImage bytes of the image.  {0} when no byte is drawn: the byte is in
\* ram, in the reserved region or already read, or nothing is read.
ImageChoices(self, address, bytes) ==
    IF Running(self) /\ Unread(self, address)
    THEN IF Cardinality(DOMAIN self.rom) < MaxImage THEN bytes ELSE {}
    ELSE {0}

\* The image has byte at address (when it is read there for the first time).
Load(self, address, byte) ==
    IF Unread(self, address)
    THEN [self EXCEPT !.rom = @ @@ ((address - RomBase) :> byte)]
    ELSE self

---------------------------------------------------------------------------
(* Emulator::read, write, push, pull *)

read(self, address) ==
    IF address < RamLimit THEN self.ram[address]
    ELSE IF address >= RomBase THEN self.rom[address - RomBase]
    ELSE 0

\* write with a fault: a write to a rom address stores into rom.
writeIntoRom(self, address, value) ==
    IF address < RamLimit THEN [self EXCEPT !.ram[address] = value]
    ELSE IF address >= RomBase
         THEN [self EXCEPT !.rom = ((address - RomBase) :> value) @@ @]
    ELSE Panic(self, "panic_todo")

write(self, address, value) ==
    IF address < RamLimit THEN [self EXCEPT !.ram[address] = value]
    ELSE IF address >= RomBase THEN Panic(self, "panic_todo")
    ELSE Panic(self, "panic_todo")

\* self.cpu.stack_pointer -= 1
DecrementStackPointer(self) ==
    IF self.cpu.stack_pointer - 1 < 0
    THEN IF overflow_checks THEN Panic(self, "panic_sp_overflow")
         ELSE [self EXCEPT !.cpu.stack_pointer = MaxU16]
    ELSE [self EXCEPT !.cpu.stack_pointer = @ - 1]

\* self.cpu.stack_pointer += 1
IncrementStackPointer(self) ==
    IF self.cpu.stack_pointer + 1 > MaxU16
    THEN IF overflow_checks THEN Panic(self, "panic_sp_overflow")
         ELSE [self EXCEPT !.cpu.stack_pointer = 0]
    ELSE [self EXCEPT !.cpu.stack_pointer = @ + 1]

push(self, value) ==
    LET written == write(self, self.cpu.stack_pointer, value)
    IN  IF Running(written) THEN DecrementStackPointer(written) ELSE written

\* 0x100 + self.cpu.stack_pointer
PullAddress(self) == (StackPage + self.cpu.stack_pointer) % (MaxU16 + 1)

\* pull up to the read: the stack pointer incremented and the address
\* computed.
PullBegin(self) ==
    LET incremented == IncrementStackPointer(self)
    IN  IF ~Running(incremented) THEN incremented
        ELSE IF StackPage + incremented.cpu.stack_pointer > MaxU16 /\ overflow_checks
        THEN Panic(incremented, "panic_sp_overflow")
        ELSE incremented

\* pull: byte is the image's byte at the address pulled from, when pull is
\* the first to read it.
pull(self, byte) ==
    LET begun == PullBegin(self)
    IN  IF ~Running(begun) THEN [self |-> begun, stack_byte |-> 0]
        ELSE LET loaded == Load(begun, PullAddress(begun), byte)
             IN  [self |-> loaded, stack_byte |-> read(loaded, PullAddress(loaded))]

---------------------------------------------------------------------------
(* Emulator::emulate_cpu *)

\* self.cpu.program_counter += 1
AdvanceProgramCounter(self) ==
    IF self.cpu.program_counter + 1 > MaxU16
    THEN IF overflow_checks THEN Panic(self, "panic_pc_overflow")
         ELSE [self EXCEPT !.cpu.program_counter = 0]
    ELSE [self EXCEPT !.cpu.program_counter = @ + 1]

\* The byte at program_counter, byte being the image's when this is the
\* first read of it.
AtProgramCounter(self, byte) ==
    read(Load(self, self.cpu.program_counter, byte), self.cpu.program_counter)

\* Opcode::try_from(self.read(self.cpu.program_counter)).unwrap();
\* self.cpu.program_counter += 1
Fetch(self, byte) ==
    LET loaded == Load(self, self.cpu.program_counter, byte)
    IN  IF AtProgramCounter(self, byte) \notin Opcode
        THEN Panic(loaded, "panic_opcode")
        ELSE AdvanceProgramCounter(loaded)

\* LoadImmediate with a fault: the load sets the zero and negative flags,
\* as LDA_Immediate does.
LoadImmediateSettingFlags(self, register, byte) ==
    LET loaded == Load(self, self.cpu.program_counter, byte)
        operand == AtProgramCounter(self, byte)
    IN  AdvanceProgramCounter(
            [loaded EXCEPT !.cpu[register] = operand,
                           !.cpu.flags.zero_flag = (operand = 0),
                           !.cpu.flags.negative_flag = (operand > 127)])

\* LDY_Immediate, LDX_Immediate: the register is set, then program_counter
\* advances.
LoadImmediate(self, register, byte) ==
    LET loaded == Load(self, self.cpu.program_counter, byte)
        operand == AtProgramCounter(self, byte)
    IN  AdvanceProgramCounter([loaded EXCEPT !.cpu[register] = operand])

\* FlagsOfLoad with a fault: the comparison is off by one.
FlagsOfLoadOffByOne(self) ==
    [self EXCEPT !.cpu.flags.zero_flag = (self.cpu.reg_a = 0),
                 !.cpu.flags.negative_flag = (self.cpu.reg_a > 128)]

\* zero_flag = reg_a == 0; negative_flag = reg_a > 127
FlagsOfLoad(self) ==
    [self EXCEPT !.cpu.flags.zero_flag = (self.cpu.reg_a = 0),
                 !.cpu.flags.negative_flag = (self.cpu.reg_a > 127)]

\* FlagsOfPull with a fault: the sign goes to the carry flag.
FlagsOfPullIntoCarry(self) ==
    [self EXCEPT !.cpu.flags.zero_flag = (self.cpu.reg_a = 0),
                 !.cpu.flags.carry_flag = (self.cpu.reg_a >= 128)]

\* zero_flag = reg_a == 0; negative_flag = reg_a >= 0x80
FlagsOfPull(self) ==
    [self EXCEPT !.cpu.flags.zero_flag = (self.cpu.reg_a = 0),
                 !.cpu.flags.negative_flag = (self.cpu.reg_a >= 128)]

\* LoadAccumulatorImmediate with a fault: the flags are not set.
LoadAccumulatorImmediateKeepingFlags(self, byte) ==
    LoadImmediate(self, "reg_a", byte)

LoadAccumulatorImmediate(self, byte) ==
    LET advanced == LoadImmediate(self, "reg_a", byte)
    IN  IF Running(advanced) THEN FlagsOfLoad(advanced) ELSE advanced

\* LoadAccumulatorZeroPage with a fault: program_counter stays at the operand.
LoadAccumulatorZeroPageNotAdvancing(self, byte) ==
    LET loaded == Load(self, self.cpu.program_counter, byte)
        operand == AtProgramCounter(self, byte)
    IN  [loaded EXCEPT !.cpu.reg_a = read(loaded, operand)]

LoadAccumulatorZeroPage(self, byte) ==
    LET loaded == Load(self, self.cpu.program_counter, byte)
        operand == AtProgramCounter(self, byte)
    IN  AdvanceProgramCounter([loaded EXCEPT !.cpu.reg_a = read(loaded, operand)])

\* The two operand bytes of an absolute instruction, low then high, with
\* program_counter advanced after each: the Emulator after them and
\* operand_h * 256 + operand_l.
AbsoluteOperand(self, byte_l, byte_h) ==
    LET operand_l == AtProgramCounter(self, byte_l)
        first == AdvanceProgramCounter(Load(self, self.cpu.program_counter, byte_l))
    IN  IF ~Running(first) THEN [self |-> first, address |-> -1]
        ELSE LET operand_h == AtProgramCounter(first, byte_h)
                 second == AdvanceProgramCounter(
                               Load(first, first.cpu.program_counter, byte_h))
             IN  [ self |-> second,
                   address |-> IF Running(second) THEN operand_h * 256 + operand_l
                               ELSE -1 ]

LoadAccumulatorAbsolute(self, byte_l, byte_h, byte) ==
    LET operand == AbsoluteOperand(self, byte_l, byte_h)
    IN  IF ~Running(operand.self) THEN operand.self
        ELSE LET loaded == Load(operand.self, operand.address, byte)
             IN  [loaded EXCEPT !.cpu.reg_a = read(loaded, operand.address)]

\* StoreZeroPage with a fault: reg_x is stored, whatever the register.
StoreZeroPageFromX(self, register, byte) ==
    LET loaded == Load(self, self.cpu.program_counter, byte)
        operand == AtProgramCounter(self, byte)
        written == write(loaded, operand, self.cpu.reg_x)
    IN  IF Running(written) THEN AdvanceProgramCounter(written) ELSE written

\* STY_ZeroPage, STX_ZeroPage, STA_ZeroPage: the write, then program_counter
\* advances.
StoreZeroPage(self, register, byte) ==
    LET loaded == Load(self, self.cpu.program_counter, byte)
        operand == AtProgramCounter(self, byte)
        written == write(loaded, operand, self.cpu[register])
    IN  IF Running(written) THEN AdvanceProgramCounter(written) ELSE written

\* STY_Absolute, STX_Absolute, STA_Absolute
StoreAbsolute(self, register, byte_l, byte_h) ==
    LET operand == AbsoluteOperand(self, byte_l, byte_h)
    IN  IF ~Running(operand.self) THEN operand.self
        ELSE write(operand.self, operand.address, self.cpu[register])

PushAccumulator(self) == push(self, self.cpu.reg_a)

PullAccumulator(self, byte) ==
    LET pulled == pull(self, byte)
    IN  IF ~Running(pulled.self) THEN pulled.self
        ELSE FlagsOfPull([pulled.self EXCEPT !.cpu.reg_a = pulled.stack_byte])

\* BranchCondition with a fault: BPL and BMI test the zero flag.
BranchConditionZeroOnly(opcode, flags) ==
    CASE opcode = BNE -> ~flags.zero_flag
      [] opcode = BEQ -> flags.zero_flag
      [] opcode = BPL -> ~flags.zero_flag
      [] opcode = BMI -> flags.zero_flag

\* The condition of a branch: BNE !zero_flag, BEQ zero_flag, BPL
\* !negative_flag, BMI negative_flag.
BranchCondition(opcode, flags) ==
    CASE opcode = BNE -> ~flags.zero_flag
      [] opcode = BEQ -> flags.zero_flag
      [] opcode = BPL -> ~flags.negative_flag
      [] opcode = BMI -> flags.negative_flag

\* JumpCounter with a fault: the operand is not reduced.
JumpCounterUnsigned(operand) == operand

\* let mut jump_counter = operand as i32;
\* if jump_counter > 127 { jump_counter -= 256; }
JumpCounter(operand) ==
    IF operand > 127 THEN operand - 256 ELSE operand

\* jump_counter as u16: the low 16 bits of the i32
AsU16(n) == IF n < 0 THEN n + MaxU16 + 1 ELSE n

\* program_counter = program_counter + jump_counter as u16
\* Jump with a fault: the offset counts from the address of the operand byte.
JumpFromOperand(self, operand) ==
    LET sum == self.cpu.program_counter - 1 + AsU16(JumpCounter(operand))
    IN  IF sum > MaxU16
        THEN IF overflow_checks THEN Panic(self, "panic_pc_overflow")
             ELSE [self EXCEPT !.cpu.program_counter = sum - (MaxU16 + 1)]
        ELSE [self EXCEPT !.cpu.program_counter = sum]

Jump(self, operand) ==
    LET sum == self.cpu.program_counter + AsU16(JumpCounter(operand))
    IN  IF sum > MaxU16
        THEN IF overflow_checks THEN Panic(self, "panic_pc_overflow")
             ELSE [self EXCEPT !.cpu.program_counter = sum - (MaxU16 + 1)]
        ELSE [self EXCEPT !.cpu.program_counter = sum]

\* BNE, BEQ, BPL, BMI
Branch(self, opcode, byte) ==
    LET operand == AtProgramCounter(self, byte)
        advanced == AdvanceProgramCounter(Load(self, self.cpu.program_counter, byte))
    IN  IF Running(advanced) /\ BranchCondition(opcode, advanced.cpu.flags)
        THEN Jump(advanced, operand)
        ELSE advanced

\* match opcode { .. }: fetched is the Emulator after the fetch; byte1 and
\* byte2 are the image's bytes at the operands and byte3 the image's byte
\* at the address loaded or pulled from, where the instruction is the
\* first to read them.
Execute(fetched, opcode, byte1, byte2, byte3) ==
    CASE opcode = HLT -> [fetched EXCEPT !.cpu.halted = TRUE]
      [] opcode = LDY_Immediate -> LoadImmediate(fetched, "reg_y", byte1)
      [] opcode = LDX_Immediate -> LoadImmediate(fetched, "reg_x", byte1)
      [] opcode = LDA_Immediate -> LoadAccumulatorImmediate(fetched, byte1)
      [] opcode = LDA_ZeroPage -> LoadAccumulatorZeroPage(fetched, byte1)
      [] opcode = LDA_Absolute -> LoadAccumulatorAbsolute(fetched, byte1, byte2, byte3)
      [] opcode = STY_ZeroPage -> StoreZeroPage(fetched, "reg_y", byte1)
      [] opcode = STX_ZeroPage -> StoreZeroPage(fetched, "reg_x", byte1)
      [] opcode = STA_ZeroPage -> StoreZeroPage(fetched, "reg_a", byte1)
      [] opcode = STY_Absolute -> StoreAbsolute(fetched, "reg_y", byte1, byte2)
      [] opcode = STX_Absolute -> StoreAbsolute(fetched, "reg_x", byte1, byte2)
      [] opcode = STA_Absolute -> StoreAbsolute(fetched, "reg_a", byte1, byte2)
      [] opcode = PHA -> PushAccumulator(fetched)
      [] opcode = PLA -> PullAccumulator(fetched, byte3)
      [] opcode \in {BNE, BEQ, BPL, BMI} -> Branch(fetched, opcode, byte1)

emulate_cpu(self, byte0, byte1, byte2, byte3) ==
    LET fetched == Fetch(self, byte0)
    IN  IF Running(fetched)
        THEN Execute(fetched, AtProgramCounter(self, byte0), byte1, byte2, byte3)
        ELSE fetched

---------------------------------------------------------------------------
(* What an instruction reads, for the images explored and for `last' *)

\* The operand bytes that follow the opcode.
OperandCount(opcode) ==
    IF opcode \in {LDA_Absolute, STY_Absolute, STX_Absolute, STA_Absolute} THEN 2
    ELSE IF opcode \in {HLT, PHA, PLA} \/ opcode \notin Opcode THEN 0
    ELSE 1

\* The address the instruction loads from, stores to, pushes to or pulls
\* from (-1: none, or the instruction panics before it has one).
EffectiveAddress(fetched, opcode, byte1, byte2) ==
    IF ~Running(fetched) THEN -1
    ELSE IF opcode \in {LDA_ZeroPage, STY_ZeroPage, STX_ZeroPage, STA_ZeroPage}
    THEN AtProgramCounter(fetched, byte1)
    ELSE IF OperandCount(opcode) = 2
    THEN AbsoluteOperand(fetched, byte1, byte2).address
    ELSE IF opcode = PHA THEN fetched.cpu.stack_pointer
    ELSE IF opcode = PLA
    THEN IF Running(PullBegin(fetched)) THEN PullAddress(PullBegin(fetched)) ELSE -1
    ELSE -1

Byte1Choices(fetched, opcode) ==
    IF OperandCount(opcode) >= 1
    THEN ImageChoices(fetched, fetched.cpu.program_counter, OperandBytes)
    ELSE {0}

Byte2Choices(fetched, opcode, byte1) ==
    IF OperandCount(opcode) = 2 /\ Running(fetched)
    THEN LET first == AdvanceProgramCounter(
                          Load(fetched, fetched.cpu.program_counter, byte1))
         IN  ImageChoices(first, first.cpu.program_counter, OperandBytes)
    ELSE {0}

Byte3Choices(fetched, opcode, byte1, byte2) ==
    LET address == EffectiveAddress(fetched, opcode, byte1, byte2)
    IN  IF opcode = LDA_Absolute /\ address >= 0
        THEN ImageChoices(AbsoluteOperand(fetched, byte1, byte2).self, address,
                          OperandBytes)
        ELSE IF opcode = PLA /\ address >= 0
        THEN ImageChoices(fetched, address, OperandBytes)
        ELSE {0}

\* The instruction as `last' keeps it: the byte fetched, its first operand
\* byte (-1: none read), its effective address and the Cpu before it.
Instruction(self, byte0, byte1, byte2) ==
    LET opcode == AtProgramCounter(self, byte0)
        fetched == Fetch(self, byte0)
    IN  [ opcode |-> opcode,
          operand |-> IF Running(fetched) /\ OperandCount(opcode) >= 1
                      THEN AtProgramCounter(fetched, byte1) ELSE -1,
          address |-> EffectiveAddress(fetched, opcode, byte1, byte2),
          cpu |-> self.cpu ]

---------------------------------------------------------------------------
(* main: Emulator::new, then reset, which loads the image, reads the reset  *)
(* vector and runs.                                                         *)

\* reset, when fs::read fails (unwrap) or the file is not 16 + rom.len()
\* bytes long (copy_from_slice).
ResetFails ==
    /\ outcome = "new"
    /\ outcome' = "panic_load"
    /\ UNCHANGED <<ram, rom, cpu, overflow_checks, last, prev, probe>>

\* reset with a fault: the two bytes of the vector taken in the other order.
resetHighByteFirst(self, pcl, pch) ==
    LET loaded == Load(Load(self, VectorLow, pcl), VectorHigh, pch)
    IN  [loaded EXCEPT !.cpu.program_counter =
                           read(loaded, VectorLow) * 256 + read(loaded, VectorHigh),
                       !.outcome = "running"]

\* reset up to the call of run: pcl and pch are the image's bytes at 0xFFFC
\* and 0xFFFD.
reset(self, pcl, pch) ==
    LET loaded == Load(Load(self, VectorLow, pcl), VectorHigh, pch)
    IN  [loaded EXCEPT !.cpu.program_counter =
                           read(loaded, VectorHigh) * 256 + read(loaded, VectorLow),
                       !.outcome = "running"]

Reset ==
    /\ outcome = "new"
    /\ \E pcl \in VectorLowBytes, pch \in VectorHighBytes :
          LET self == reset(Self, pcl, pch)
          IN  /\ ram' = self.ram
              /\ rom' = self.rom
              /\ cpu' = self.cpu
              /\ outcome' = self.outcome
    /\ UNCHANGED <<overflow_checks, last, prev, probe>>

\* RunCondition with a fault: the loop does not look at halted.
RunConditionAlways(c) == TRUE

\* run: while !self.cpu.halted
RunCondition(c) == ~c.halted

\* One turn of run's loop.
Emulate ==
    /\ outcome = "running"
    /\ RunCondition(cpu)
    /\ \E byte0 \in ImageChoices(Self, cpu.program_counter, OpcodeBytes) :
       \E byte1 \in Byte1Choices(Fetch(Self, byte0), AtProgramCounter(Self, byte0)) :
       \E byte2 \in Byte2Choices(Fetch(Self, byte0), AtProgramCounter(Self, byte0),
                                 byte1) :
       \E byte3 \in Byte3Choices(Fetch(Self, byte0), AtProgramCounter(Self, byte0),
                                 byte1, byte2) :
          LET self == emulate_cpu(Self, byte0, byte1, byte2, byte3)
          IN  /\ ram' = self.ram
              /\ rom' = self.rom
              /\ cpu' = self.cpu
              /\ outcome' = self.outcome
              /\ last' = Instruction(Self, byte0, byte1, byte2)
              /\ prev' = last
    /\ UNCHANGED <<overflow_checks, probe>>

\* run returns, and reset after it.
RunReturns ==
    /\ outcome = "running"
    /\ ~RunCondition(cpu)
    /\ outcome' = "returned"
    /\ UNCHANGED <<ram, rom, cpu, overflow_checks, last, prev, probe>>

Next ==
    \/ ResetFails
    \/ Reset
    \/ Emulate
    \/ RunReturns

Spec == Init /\ [][Next]_vars

---------------------------------------------------------------------------
(* Emulator::new with sizes of the caller's choice, and read called on the  *)
(* Emulator it returns: ram filled with 0xFF and rom zeroed, each of the     *)
(* size asked for.                                                          *)

\* the ram and rom sizes new is called with: below, at and above what read
\* takes them to be
RamSizes == {1024, 2048, 4096}
RomSizes == {16384, 32768}

\* the addresses read is called with: the ends of the two ram sizes that
\* are not 0x800, of the regions of read and of the smaller rom
ProbeAddresses ==
    {0, 1023, 1024, 2047, 2048, 4095, 4096, 32767, 32768, 49151, 49152, 65535}

\* Emulator::new(ram_size, rom_size, ..): the two buffers
new(ram_size, rom_size) ==
    [ ram |-> [a \in 0 .. ram_size - 1 |-> 255],
      rom |-> [offset \in 0 .. rom_size - 1 |-> 0] ]

InitSizes ==
    /\ \E ram_size \in RamSizes, rom_size \in RomSizes :
          /\ ram = new(ram_size, rom_size).ram
          /\ rom = new(ram_size, rom_size).rom
    /\ cpu = CpuNew
    /\ outcome = "new"
    /\ overflow_checks \in BOOLEAN
    /\ last = NoInstruction
    /\ prev = NoInstruction
    /\ probe = NoProbe

\* The index read uses at address is within the buffer it indexes (an index
\* outside it panics).
IndexInBounds(self, address) ==
    IF address < RamLimit THEN address \in DOMAIN self.ram
    ELSE IF address >= RomBase THEN (address - RomBase) \in DOMAIN self.rom
    ELSE TRUE

\* read(address) on the Emulator as constructed.
Read ==
    /\ outcome = "new"
    /\ \E address \in ProbeAddresses :
          IF IndexInBounds(Self, address)
          THEN /\ probe' = [address |-> address, byte |-> read(Self, address)]
               /\ outcome' = outcome
          ELSE /\ probe' = [address |-> address, byte |-> -1]
               /\ outcome' = "panic_index"
    /\ UNCHANGED <<ram, rom, cpu, overflow_checks, last, prev>>

NextSizes == Read

SpecSizes == InitSizes /\ [][NextSizes]_vars

---------------------------------------------------------------------------
(* What the claims speak of *)

\* The step from this state to the next is a call of emulate_cpu that
\* fetches opcode.  (While run's loop turns, nothing else happens; every call
\* sets last to the instruction it fetched.)
Executes(opcode) ==
    /\ outcome = "running"
    /\ ~cpu.halted
    /\ last'.opcode = opcode

\* The call of emulate_cpu returns to run's loop.
Returns == outcome' = "running"

Stores == {STY_ZeroPage, STX_ZeroPage, STA_ZeroPage,
           STY_Absolute, STX_Absolute, STA_Absolute}

Branches == {BNE, BEQ, BPL, BMI}

\* The bytes of the image read so far are the same in the next state.
RomUnchanged == \A offset \in DOMAIN rom : offset \in DOMAIN rom' /\ rom'[offset] = rom[offset]

---------------------------------------------------------------------------
\* C1: PHA immediately followed by PLA leaves the accumulator and the stack
\* pointer as they were before the PHA.
C1_PushThenPullRestores ==
    (prev.opcode = PHA /\ last.opcode = PLA)
        => /\ outcome = "running"
           /\ cpu.reg_a = prev.cpu.reg_a
           /\ cpu.stack_pointer = prev.cpu.stack_pointer

\* C2: a store or a push to an address in the rom region or in the reserved
\* region is reported as InvalidWriteTarget, not by a panic, and changes no
\* byte of ram or rom.
C2_InvalidWriteReported ==
    [][ (/\ \E opcode \in Stores \cup {PHA} : Executes(opcode)
         /\ last'.address >= RamLimit)
            => /\ outcome' = "InvalidWriteTarget"
               /\ ram' = ram
               /\ RomUnchanged ]_vars

\* C3: a fetched byte that is no opcode of the table is reported as
\* UnimplementedOpcode: not a halt, not a no-op, not a panic.
C3_UnimplementedReported ==
    (last.opcode >= 0 /\ last.opcode \notin Opcode)
        => outcome = "UnimplementedOpcode"

\* C4: once halted is true no instruction is executed any more, and the Cpu
\* (halted with it) and ram stay as the HLT left them.
C4_HaltedIsTerminal ==
    [][ cpu.halted
            => /\ cpu' = cpu
               /\ ram' = ram
               /\ last' = last
               /\ prev' = prev ]_vars

\* C4's case: run has returned after a HLT.
C4_Witness ==
    /\ outcome = "returned"
    /\ cpu.halted
    /\ last.opcode = HLT

\* The offset an operand byte stands for: b when b <= 127, b - 256 otherwise.
SignedOffset(b) == IF b <= 127 THEN b ELSE b - 256

\* The condition the opcode table gives each branch.
ConditionHolds(opcode, flags) ==
    \/ opcode = BEQ /\ flags.zero_flag
    \/ opcode = BNE /\ ~flags.zero_flag
    \/ opcode = BMI /\ flags.negative_flag
    \/ opcode = BPL /\ ~flags.negative_flag

\* C5: a branch whose condition holds leaves program_counter at
\* (p + 2 + off) mod 2^16, p being the address of its opcode and off the
\* signed value of its operand byte.  (Of a step that returns: a step that
\* panics on the overflow of the addition leaves nothing, and is C10's.)
C5_TakenBranchTarget ==
    [][ \A opcode \in Branches :
            (Executes(opcode) /\ Returns /\ ConditionHolds(opcode, cpu.flags))
                => cpu'.program_counter =
                       (cpu.program_counter + 2 + SignedOffset(last'.operand)
                            + (MaxU16 + 1)) % (MaxU16 + 1) ]_vars

\* C5's case: a BNE with operand 0xFE was taken with the zero flag clear and
\* left program_counter 2 below the address after its operand.
C5_Witness ==
    /\ outcome = "running"
    /\ last.opcode = BNE
    /\ last.operand = 254
    /\ ~last.cpu.flags.zero_flag
    /\ cpu.program_counter = last.cpu.program_counter

\* C6: a branch whose condition does not hold leaves program_counter at the
\* address after its operand byte and changes nothing else: registers,
\* flags, stack_pointer, halted, ram and rom.  (Of a step that returns, as
\* C5.)
C6_UntakenBranchFallsThrough ==
    [][ \A opcode \in Branches :
            (Executes(opcode) /\ Returns /\ ~ConditionHolds(opcode, cpu.flags))
                => /\ cpu' = [cpu EXCEPT !.program_counter =
                                  (cpu.program_counter + 2) % (MaxU16 + 1)]
                   /\ ram' = ram
                   /\ RomUnchanged ]_vars

\* C6's case: a BEQ with a nonzero offset was not taken, the zero flag being
\* clear.
C6_Witness ==
    /\ outcome = "running"
    /\ last.opcode = BEQ
    /\ last.operand = 254
    /\ ~last.cpu.flags.zero_flag
    /\ cpu.program_counter = last.cpu.program_counter + 2

\* The byte at address in the next state.
ByteNext(address) ==
    read([ram |-> ram', rom |-> rom', cpu |-> cpu', outcome |-> outcome'], address)

\* C7: LDA-Immediate with operand v, and PLA pulling v, leave accumulator = v,
\* zero flag = (v = 0) and negative flag = (v >= 0x80).  (Of a step that
\* returns, as C5.)
C7_LoadAndPullSetFlags ==
    [][ /\ (Executes(LDA_Immediate) /\ Returns)
            => /\ cpu'.reg_a = last'.operand
               /\ cpu'.flags.zero_flag = (last'.operand = 0)
               /\ cpu'.flags.negative_flag = (last'.operand >= 128)
        /\ (Executes(PLA) /\ Returns)
            => /\ cpu'.reg_a = ByteNext(last'.address)
               /\ cpu'.flags.zero_flag = (ByteNext(last'.address) = 0)
               /\ cpu'.flags.negative_flag = (ByteNext(last'.address) >= 128) ]_vars

\* C7's case: LDA #0x80 has set the negative flag and left the zero flag
\* clear.
C7_Witness ==
    /\ outcome = "running"
    /\ last.opcode = LDA_Immediate
    /\ last.operand = 128
    /\ cpu.reg_a = 128
    /\ cpu.flags.negative_flag
    /\ ~cpu.flags.zero_flag

\* C8: every instruction other than LDA-Immediate and PLA leaves the five
\* flags as they were.
C8_OtherInstructionsKeepFlags ==
    [][ \A opcode \in Opcode \ {LDA_Immediate, PLA} :
            Executes(opcode) => cpu'.flags = cpu.flags ]_vars

\* C8's case: LDX #0 was executed with the negative flag set, and the flags
\* are as before it.
C8_Witness ==
    /\ outcome = "running"
    /\ last.opcode = LDX_Immediate
    /\ last.operand = 0
    /\ last.cpu.flags.negative_flag
    /\ cpu.reg_x = 0
    /\ cpu.flags = last.cpu.flags

\* C9: stack_pointer is always in 0 .. 255, and no decrement or increment of
\* it fails on overflow.
C9_StackPointerIsEightBit ==
    /\ cpu.stack_pointer \in 0 .. 255
    /\ outcome # "panic_sp_overflow"

\* C10: no arithmetic on program_counter fails on overflow: the advance at
\* 0xFFFF and the addition of a branch offset wrap and the step completes.
C10_ProgramCounterWraps ==
    outcome # "panic_pc_overflow"

\* C11: read never fails, whatever ram size and rom size the Emulator was
\* constructed with and whatever the address: it gives the ram byte when the
\* address is below the ram size, the rom byte when it is at or above the rom
\* base, and 0 between the two.
C11_ReadNeverFails ==
    probe.address >= 0
        => /\ outcome = "new"
           /\ probe.byte =
                  IF probe.address \in DOMAIN ram THEN ram[probe.address]
                  ELSE IF probe.address >= RomBase
                       THEN rom[probe.address - RomBase]
                       ELSE 0

\* The step from this state to the next is a store or a push that targets
\* address.
Targets(address) ==
    /\ \E opcode \in Stores \cup {PHA} : Executes(opcode)
    /\ last'.address = address

\* C12: every ram address that no store and no push has targeted reads as
\* 0xFF: every ram address reads as 0xFF on construction, and a step that
\* changes ram is a store or a push, and changes ram at the address it
\* targets and nowhere else.
C12_UntouchedRamReadsFF ==
    /\ \A address \in 0 .. RamSize - 1 : read(Self, address) = 255
    /\ [][ ram' # ram
               => \E address \in 0 .. RamSize - 1 :
                     /\ Targets(address)
                     /\ ram' = [ram EXCEPT ![address] = ram'[address]] ]_vars

\* C12's case: a store has put 0x00 at one ram address, and every other ram
\* address still reads as 0xFF.
C12_Witness ==
    /\ outcome = "running"
    /\ last.opcode \in Stores
    /\ last.address \in 0 .. RamSize - 1
    /\ read(Self, last.address) = 0
    /\ \A address \in (0 .. RamSize - 1) \ {last.address} :
           read(Self, address) = 255

\* C13: after any number of steps rom is the image that was loaded: no step
\* changes a byte of it.  (Of the image, rom holds the bytes read so far; a
\* step may read further bytes, and leaves every byte read before as it was.)
C13_RomKeepsImage ==
    [][ RomUnchanged ]_vars

\* C13's case: a store has targeted the rom address of its own opcode byte,
\* and the byte is there as it was fetched.
C13_Witness ==
    /\ last.opcode \in Stores
    /\ last.address >= RomBase
    /\ last.address = last.cpu.program_counter
    /\ rom[last.address - RomBase] = last.opcode

\* The Cpu run is started with: as constructed, program_counter at the reset
\* vector.
RunStart ==
    [CpuNew EXCEPT !.program_counter =
         rom[VectorHigh - RomBase] * 256 + rom[VectorLow - RomBase]]

\* C14: run started with the bytes 0xA9, v, 0x02 at program_counter ends
\* after exactly two steps, with accumulator = v, halted true, zero flag =
\* (v = 0) and negative flag = (v >= 0x80).  The first step, the LDA, returns
\* to the loop with halted false (the three bytes lying at p, p + 1, p + 2);
\* the second, the HLT, leaves halted true, so that the loop ends (C4).
C14_LoadThenHalt ==
    /\ (/\ last.opcode = LDA_Immediate
         /\ last.cpu = RunStart
         /\ last.cpu.program_counter + 2 <= MaxU16)
            => /\ outcome = "running"
               /\ ~cpu.halted
    /\ (/\ prev.opcode = LDA_Immediate
         /\ prev.cpu = RunStart
         /\ last.opcode = HLT
         /\ last.cpu.program_counter = prev.cpu.program_counter + 2)
            => /\ outcome \in {"running", "returned"}
               /\ cpu.halted
               /\ cpu.reg_a = prev.operand
               /\ cpu.flags.zero_flag = (prev.operand = 0)
               /\ cpu.flags.negative_flag = (prev.operand >= 128)

\* C14's case: run has returned after LDA #5, HLT with accumulator 5 and
\* both flags clear.
C14_Witness ==
    /\ outcome = "returned"
    /\ prev.opcode = LDA_Immediate
    /\ prev.cpu = RunStart
    /\ prev.operand = 5
    /\ last.opcode = HLT
    /\ cpu.halted
    /\ cpu.reg_a = 5
    /\ ~cpu.flags.zero_flag
    /\ ~cpu.flags.negative_flag

\* C15: reset leaves program_counter = high * 256 + low, low being what read
\* gives at 0xFFFC and high what it gives at 0xFFFD, whatever the two bytes.
\* (Between reset and run's first step no instruction has been executed.)
C15_ResetVector ==
    (outcome = "running" /\ last = NoInstruction)
        => cpu.program_counter =
               read(Self, VectorHigh) * 256 + read(Self, VectorLow)

\* C15's case: the vector bytes 0xFE (low) and 0x80 (high) have given
\* program_counter 0x80FE.
C15_Witness ==
    /\ outcome = "running"
    /\ last = NoInstruction
    /\ read(Self, VectorLow) = 254
    /\ read(Self, VectorHigh) = 128
    /\ cpu.program_counter = 128 * 256 + 254

\* The number of operand bytes the opcode table gives each instruction.
OperandLength(opcode) ==
    CASE opcode \in {HLT, PHA, PLA} -> 0
      [] opcode \in {LDY_Immediate, LDX_Immediate, LDA_Immediate, LDA_ZeroPage,
                      STY_ZeroPage, STX_ZeroPage, STA_ZeroPage} \cup Branches -> 1
      [] opcode \in {LDA_Absolute, STY_Absolute, STX_Absolute, STA_Absolute} -> 2

\* C16: every instruction executed, other than a branch whose condition
\* holds, leaves program_counter = (p + 1 + n) mod 2^16, p being the address
\* of its opcode and n the number of its operand bytes.  (Of a step that
\* returns, as C5.)
C16_ProgramCounterAdvance ==
    [][ \A opcode \in Opcode :
            (/\ Executes(opcode)
             /\ Returns
             /\ ~(opcode \in Branches /\ ConditionHolds(opcode, cpu.flags)))
                => cpu'.program_counter =
                       (cpu.program_counter + 1 + OperandLength(opcode))
                           % (MaxU16 + 1) ]_vars

\* C16's case: a STA-Absolute to a ram address has left program_counter 3
\* above the address of its opcode.
C16_Witness ==
    /\ outcome = "running"
    /\ last.opcode = STA_Absolute
    /\ last.address < RamLimit
    /\ cpu.program_counter = last.cpu.program_counter + 3

\* C17: in every state reachable from the Emulator as constructed a PHA
\* completes normally and writes the accumulator into ram: the address a
\* push targets is never in rom or in the reserved region.  (Of a PHA that
\* was fetched: last.address is the address its push targets.)
C17_PushStaysInRam ==
    (last.opcode = PHA /\ last.address >= 0)
        => /\ outcome = "running"
           /\ last.address < RamLimit
           /\ read(Self, last.address) = last.cpu.reg_a

\* C18: a STA to a ram address a with accumulator v, followed later by an
\* LDA from a (zero-page or absolute), no write to a in between, leaves
\* accumulator = v, whatever the accumulator held in between.  Step by step:
\* a STA leaves the accumulator's value at the address it targets; a step
\* that is no store and no push to a leaves the byte at a as it is; an LDA
\* from a ram address leaves in the accumulator the byte that is there.  (Of
\* steps that return, as C5.)
C18_StoreThenLoad ==
    [][ /\ \A opcode \in {STA_ZeroPage, STA_Absolute} :
               (Executes(opcode) /\ Returns)
                   => /\ last'.address < RamLimit
                      /\ ByteNext(last'.address) = cpu.reg_a
        /\ ram' # ram
               => \E address \in 0 .. RamSize - 1 :
                     /\ Targets(address)
                     /\ ram' = [ram EXCEPT ![address] = ram'[address]]
        /\ \A opcode \in {LDA_ZeroPage, LDA_Absolute} :
               (Executes(opcode) /\ Returns /\ last'.address < RamLimit)
                   => cpu'.reg_a = read(Self, last'.address) ]_vars

\* C18's case: a STA-ZeroPage has stored 0x00 at a ram address, which held
\* 0xFF, and the LDA-ZeroPage from that address after it has left 0x00 in the
\* accumulator.
C18_Witness ==
    /\ outcome = "running"
    /\ prev.opcode = STA_ZeroPage
    /\ prev.cpu.reg_a = 0
    /\ last.opcode = LDA_ZeroPage
    /\ last.address = prev.address
    /\ cpu.reg_a = 0

\* C19: in every reachable state the interrupt-disable flag is true and the
\* carry and overflow flags are false: they are as new set them.
C19_FixedFlags ==
    /\ cpu.flags.interrupt_disable_flag
    /\ ~cpu.flags.carry_flag
    /\ ~cpu.flags.overflow_flag

\* C19's case: a PLA has pulled a byte with the sign bit set and set the
\* negative flag; the three flags are as new set them.
C19_Witness ==
    /\ outcome = "running"
    /\ last.opcode = PLA
    /\ cpu.reg_a >= 128
    /\ cpu.flags.negative_flag
    /\ cpu.flags.interrupt_disable_flag
    /\ ~cpu.flags.carry_flag
    /\ ~cpu.flags.overflow_flag

\* The step from this state to the next is a BNE with operand 0xFE that is
\* taken and returns.
TakenBneMinusTwo ==
    /\ Executes(BNE)
    /\ Returns
    /\ last'.operand = 254
    /\ ~cpu.flags.zero_flag

\* C20 as the spec states it: a taken BNE with operand 0xFE whose opcode byte
\* is at address p leaves program_counter = p - 2.
C20_ResumesTwoBeforeOpcode ==
    [][ TakenBneMinusTwo
            => cpu'.program_counter =
                   (cpu.program_counter - 2 + (MaxU16 + 1)) % (MaxU16 + 1) ]_vars

\* C20 as the code has it: a taken BNE with operand 0xFE whose opcode byte is
\* at address p leaves program_counter = p, 2 below the address after its
\* operand byte: execution resumes at the branch opcode itself.
C20_ResumesAtOpcode ==
    [][ TakenBneMinusTwo => cpu'.program_counter = cpu.program_counter ]_vars

\* C20's case: a taken BNE with operand 0xFE has been executed a second time
\* at the same address, and program_counter is at its opcode again.
C20_Witness ==
    /\ outcome = "running"
    /\ prev.opcode = BNE
    /\ prev.operand = 254
    /\ last.opcode = BNE
    /\ last.operand = 254
    /\ last.cpu.program_counter = prev.cpu.program_counter
    /\ cpu.program_counter = last.cpu.program_counter

=============================================================================
